---- MODULE Spec2Model ----
(***************************************************************************)
(* A model of tools/string_headers.py, the generator of the header files   *)
(* of BOOST_METAPARSE_STRING.  Text is modelled as text: a file is the     *)
(* sequence of the lines written to it, a line is a string, and numbers    *)
(* are formatted and parsed digit by digit as str(), zfill(), int() and    *)
(* the {:X} format do.                                                     *)
(***************************************************************************)
EXTENDS Integers, Sequences, FiniteSets, TLC

VARIABLES
    pc,                 \* position of the program
    max_length_limit,   \* args.max_length_limit
    length_limit_step,  \* args.length_limit_step
    limits,             \* the list returned by length_limits
    length_limit,       \* argument of generate_string_indexing
    indexing,           \* the list `result` of generate_string_indexing
    dir,                \* the output directory: file name -> lines
    i,                  \* index of the loop the program is in
    listing,            \* what os.listdir returned and is not yet visited
    run,                \* number of the current call of generate
    first,              \* the directory as the first call of generate left it
    log                 \* the file operations of the current call of generate

vars == << pc, max_length_limit, length_limit_step, limits, length_limit,
           indexing, dir, i, listing, run, first, log >>

----------------------------------------------------------------------------
(* Bounds of the model *)

\* largest --max_length_limit given to the driver
MaxLengthLimit == 5
\* largest --length_limit_step given to the driver
MaxStep == 3
\* one more pair of arguments of the driver, whose limits are padded with zeros
WideLengthLimit == 10
WideStep == 4
\* number of successive calls of generate on the same directory
MaxRuns == 2
\* largest --max_length_limit given to length_limits alone
FnMaxLengthLimit == 24
\* largest --length_limit_step given to length_limits alone
FnMaxStep == 9
\* generate_string_indexing alone: largest number of 16^3 blocks
FnMaxBlocks == 2
\* generate_string_indexing alone: largest remainder below a 16^3 block
FnMaxRest == 550

(* Constants of the program *)

VERSION == 1
DefaultMaxLengthLimit == 2048
DefaultLengthLimitStep == 128

----------------------------------------------------------------------------
(* Python built-ins *)

Digits == << "0", "1", "2", "3", "4", "5", "6", "7", "8", "9" >>
HexDigits == Digits \o << "A", "B", "C", "D", "E", "F" >>

RECURSIVE Render(_, _, _)
Render(n, base, digits) ==
    IF n < base THEN digits[n + 1]
    ELSE Render(n \div base, base, digits) \o digits[(n % base) + 1]

\* str(n) and '{0}'.format(n) of a non-negative integer
str(n) == Render(n, 10, Digits)

\* '{0:X}'.format(n)
FormatX(n) == Render(n, 16, HexDigits)

DigitValue(c) == CHOOSE d \in 0..15 : HexDigits[d + 1] = c

IsDigit(c) == \E d \in 0..9 : Digits[d + 1] = c

RECURSIVE Parse(_, _, _)
Parse(s, base, acc) ==
    IF Len(s) = 0 THEN acc
    ELSE Parse(Tail(s), base, acc * base + DigitValue(Head(s)))

\* int(s) of a string of decimal digits
int(s) == Parse(s, 10, 0)

RECURSIVE zfill(_, _)
zfill(s, width) == IF Len(s) >= width THEN s ELSE zfill("0" \o s, width)

RECURSIVE xrange(_, _, _)
xrange(start, stop, step) ==
    IF (step > 0 /\ start >= stop) \/ (step < 0 /\ start <= stop) THEN << >>
    ELSE << start >> \o xrange(start + step, stop, step)

RECURSIVE Pow(_, _)
Pow(b, e) == IF e = 0 THEN 1 ELSE b * Pow(b, e - 1)

RECURSIVE join(_, _)
join(sep, xs) ==
    IF Len(xs) = 0 THEN ""
    ELSE IF Len(xs) = 1 THEN xs[1]
    ELSE xs[1] \o sep \o join(sep, Tail(xs))

RECURSIVE Flatten(_)
Flatten(xss) == IF Len(xss) = 0 THEN << >> ELSE Head(xss) \o Flatten(Tail(xss))

----------------------------------------------------------------------------
(* length_limits and generate_string_indexing *)

length_limits(max, step) ==
    LET string_len == Len(str(max))
        r == xrange(step, max + step - 1, step)
    IN  [ k \in 1..Len(r) |-> zfill(str(r[k]), string_len) ]

StringAt(exp, idx) ==
    "BOOST_METAPARSE_V1_STRING_AT" \o str(exp) \o "((s), " \o FormatX(idx) \o ")"

string_at(limit, idx) ==
    "::boost::metaparse::v" \o str(VERSION) \o "::impl::string_at<"
        \o str(limit) \o ">((s), " \o str(idx) \o ")"

\* IndexingPass with the remainder of the division dropped: every weight
\* divides the whole length limit
RECURSIVE IndexingPassNoCarry(_, _)
IndexingPassNoCarry(limit, n) ==
    IF n = 0 THEN [ left |-> limit, result |-> << >> ]
    ELSE LET before == IndexingPassNoCarry(limit, n - 1)
             exp    == xrange(3, 0, -1)[n]
             step   == limit \div Pow(16, exp)
             r      == xrange(0, step, 1)
         IN  [ left   |-> limit % Pow(16, exp),
               result |-> before.result
                            \o [ k \in 1..Len(r) |-> StringAt(exp, r[k]) ] ]

\* the state (left, result) of generate_string_indexing after the pass of
\* the first n weights, 16^3 being the first
RECURSIVE IndexingPass(_, _)
IndexingPass(limit, n) ==
    IF n = 0 THEN [ left |-> limit, result |-> << >> ]
    ELSE LET before == IndexingPass(limit, n - 1)
             exp    == xrange(3, 0, -1)[n]
             step   == before.left \div Pow(16, exp)
             r      == xrange(0, step, 1)
         IN  [ left   |-> before.left % Pow(16, exp),
               result |-> before.result
                            \o [ k \in 1..Len(r) |-> StringAt(exp, r[k]) ] ]

\* the list `result` before it is joined
IndexingResult(limit) ==
    LET last == IndexingPass(limit, Len(xrange(3, 0, -1)))
        r    == xrange(0, last.left, 1)
    IN  last.result \o [ k \in 1..Len(r) |-> string_at(limit, r[k]) ]

generate_string_indexing(limit) == join(", ", IndexingResult(limit))

----------------------------------------------------------------------------
(* str.lower and str.upper *)

UpperCase == << "A", "B", "C", "D", "E", "F", "G", "H", "I", "J", "K", "L", "M",
                "N", "O", "P", "Q", "R", "S", "T", "U", "V", "W", "X", "Y", "Z" >>
LowerCase == << "a", "b", "c", "d", "e", "f", "g", "h", "i", "j", "k", "l", "m",
                "n", "o", "p", "q", "r", "s", "t", "u", "v", "w", "x", "y", "z" >>

MapChar(c, from, to) ==
    IF \E k \in 1..Len(from) : from[k] = c
    THEN to[CHOOSE k \in 1..Len(from) : from[k] = c]
    ELSE c

RECURSIVE MapString(_, _, _)
MapString(s, from, to) ==
    IF Len(s) = 0 THEN ""
    ELSE MapChar(Head(s), from, to) \o MapString(Tail(s), from, to)

lower(s) == MapString(s, UpperCase, LowerCase)
upper(s) == MapString(s, LowerCase, UpperCase)

----------------------------------------------------------------------------
(* The emitters of text.  Each gives the lines it writes. *)

RECURSIVE Spaces(_)
Spaces(depth) == IF depth = 0 THEN "" ELSE "  " \o Spaces(depth - 1)

\* Namespace.prefix(depth)
NamespacePrefix(depth) == Spaces(depth)

\* Namespace.begin
NamespaceBegin(names) ==
    << "" >> \o Flatten([ d \in 1..Len(names) |->
        << NamespacePrefix(d - 1) \o "namespace " \o names[d],
           NamespacePrefix(d - 1) \o "{" >> ])

\* Namespace.end
NamespaceEnd(names) ==
    LET r == xrange(Len(names) - 1, -1, -1)
    IN  [ k \in 1..Len(r) |-> NamespacePrefix(r[k]) \o "}" ]

\* Namespace.path
NamespacePath(names) == "::" \o join("::", names)

write_autogen_info ==
    << "",
       "// This is an automatically generated header file.",
       "// Generated with the tools/string_headers.py utility of",
       "// Boost.Metaparse" >>

write_no_include_guard_info ==
    << "// no include guard: the header might be included multiple times" >>

\* IncludeGuard.__init__
IncludeGuardName(name, undefine) ==
    IF undefine THEN "UNDEF_" \o upper(name) ELSE upper(name)

\* IncludeGuard.begin
IncludeGuardBegin(guard) ==
    LET name == "BOOST_METAPARSE_V1_IMPL_" \o guard \o "_HPP"
    IN  << "#ifndef " \o name, "#define " \o name >> \o write_autogen_info

\* IncludeGuard.end
IncludeGuardEnd == << "", "#endif" >>

macro_name(name) == "BOOST_METAPARSE_V" \o str(VERSION) \o "_" \o name

\* define_macro with the check for a defined macro made whatever `check` is
define_macro_always_checks(name, args, body, undefine, check) ==
    IF undefine THEN << "#undef " \o macro_name(name) >>
    ELSE << "#ifdef " \o macro_name(name),
            "#  error " \o macro_name(name) \o " already defined.",
            "#endif",
            "#define " \o macro_name(name)
                \o (IF Len(args) > 0 THEN "(" \o join(", ", args) \o ")" ELSE "")
                \o " " \o body >>

define_macro(name, args, body, undefine, check) ==
    IF undefine THEN << "#undef " \o macro_name(name) >>
    ELSE LET arg_list == IF Len(args) > 0
                         THEN "(" \o join(", ", args) \o ")"
                         ELSE ""
         IN  (IF check
              THEN << "#ifdef " \o macro_name(name),
                      "#  error " \o macro_name(name) \o " already defined.",
                      "#endif" >>
              ELSE << >>)
             \o << "#define " \o macro_name(name) \o arg_list \o " " \o body >>

\* filename without the prefix of the undefine variant
filename_without_prefix(name, undefine) == lower(name) \o ".hpp"

\* the name of the file in the output directory
filename(name, undefine) ==
    (IF undefine THEN "undef_" ELSE "") \o lower(name) \o ".hpp"

----------------------------------------------------------------------------
(* The generated files *)

\* EnumBody with the term numbered by count, not by count - 1
EnumBodyNumberedByCount(internal_name, count) ==
    macro_name(internal_name) \o str(count - 1) \o "(param), "
        \o macro_name("CAT") \o "(param, " \o str(count) \o ")"

\* the body of the helper macro of `count`, count >= 2, of generate_enum
EnumBody(internal_name, count) ==
    macro_name(internal_name) \o str(count - 1) \o "(param), "
        \o macro_name("CAT") \o "(param, " \o str(count - 1) \o ")"

generate_enum(name, internal_name, max_count, undefine) ==
    LET cat == macro_name("CAT")
        r   == xrange(2, max_count + 1, 1)
    IN  write_no_include_guard_info
        \o write_autogen_info
        \o define_macro(name, << "count", "param" >>,
               cat \o "(" \o macro_name(internal_name) \o ", count)(param)",
               undefine, TRUE)
        \o define_macro(internal_name \o "0", << "param" >>, "", undefine, FALSE)
        \o define_macro(internal_name \o "1", << "param" >>,
               cat \o "(param, 0)", undefine, FALSE)
        \o Flatten([ k \in 1..Len(r) |->
               define_macro(internal_name \o str(r[k]), << "param" >>,
                   EnumBody(internal_name, r[k]), undefine, FALSE) ])

\* RepetitionBody written out from scratch, not built on the helper before
RepetitionBodyFromScratch(internal_name, count) ==
    join(", ", [ k \in 1..count |-> "param" ])

\* the body of the helper macro of `count`, count >= 2, of generate_repetition
RepetitionBody(internal_name, count) ==
    macro_name(internal_name) \o str(count - 1) \o "(param), param"

generate_repetition(name, internal_name, max_count, undefine) ==
    LET cat == macro_name("CAT")
        r   == xrange(2, max_count + 1, 1)
    IN  write_no_include_guard_info
        \o write_autogen_info
        \o define_macro(name, << "count", "param" >>,
               cat \o "(" \o macro_name(internal_name) \o ", count)(param)",
               undefine, TRUE)
        \o define_macro(internal_name \o "0", << "param" >>, "", undefine, FALSE)
        \o define_macro(internal_name \o "1", << "param" >>, "param",
               undefine, FALSE)
        \o Flatten([ k \in 1..Len(r) |->
               define_macro(internal_name \o str(r[k]), << "param" >>,
                   RepetitionBody(internal_name, r[k]), undefine, FALSE) ])

generate_with_length_limit(length_limit_str) ==
    LET limit == int(length_limit_str)
        name  == "string" \o length_limit_str
        names == << "boost", "metaparse", "v" \o str(VERSION), "impl" >>
        r     == xrange(1, limit, 1)
    IN  IncludeGuardBegin(IncludeGuardName(name, FALSE))
        \o define_macro("TMP_LENGTH_LIMIT", << >>, str(limit), FALSE, TRUE)
        \o NamespaceBegin(names)
        \o << NamespacePrefix(Len(names)) \o macro_name("DEFINE_STRING"), "" >>
        \o [ k \in 1..Len(r) |->
               NamespacePrefix(Len(names)) \o macro_name("") \o "("
                   \o str(r[k]) \o ", " \o str(limit - r[k]) \o ")" ]
        \o << NamespacePrefix(Len(names)) \o macro_name("SPECIALISE_STRING0") >>
        \o NamespaceEnd(names)
        \o define_macro("TMP_LENGTH_LIMIT", << >>, "", TRUE, TRUE)
        \o define_macro("STRING" \o str(limit), << "s" >>,
               NamespacePath(names) \o "::string" \o str(limit) \o "<"
                   \o generate_string_indexing(limit) \o ">::type",
               FALSE, TRUE)
        \o IncludeGuardEnd

\* max_value of a non-empty list; of the empty list it raises ValueError
max_value(values) ==
    CHOOSE m \in { int(values[k]) : k \in 1..Len(values) } :
        \A k \in 1..Len(values) : int(values[k]) <= m

headers ==
    << "enum_params", "cat", "enum_constant", "define_string",
       "specialise_string" >>

\* StringBranch with the alias made of the padded text of the limit
StringBranchPaddedAlias(nth, length_limit_str) ==
    << (IF nth = 0 THEN "#if" ELSE "#elif")
           \o " BOOST_METAPARSE_LIMIT_STRING_SIZE <= "
           \o str(int(length_limit_str)),
       "#  include <boost/metaparse/v" \o str(VERSION) \o "/impl/string"
           \o length_limit_str \o ".hpp>",
       "#  define BOOST_METAPARSE_V1_STRING BOOST_METAPARSE_V1_STRING"
           \o length_limit_str >>

\* one branch of the conditional chain of string.hpp
StringBranch(nth, length_limit_str) ==
    << (IF nth = 0 THEN "#if" ELSE "#elif")
           \o " BOOST_METAPARSE_LIMIT_STRING_SIZE <= "
           \o str(int(length_limit_str)),
       "#  include <boost/metaparse/v" \o str(VERSION) \o "/impl/string"
           \o length_limit_str \o ".hpp>",
       "#  define BOOST_METAPARSE_V1_STRING BOOST_METAPARSE_V1_STRING"
           \o str(int(length_limit_str)) >>

\* what generate_string has written when it reaches max_value(limits)
StringHead(lims) ==
    write_no_include_guard_info
    \o write_autogen_info
    \o << "",
          "#ifndef BOOST_METAPARSE_LIMIT_STRING_SIZE",
          "#  error BOOST_METAPARSE_LIMIT_STRING_SIZE not defined",
          "#endif" >>
    \o << "",
          "#ifdef BOOST_METAPARSE_V1_STRING",
          "#  undef BOOST_METAPARSE_V1_STRING",
          "#endif",
          "" >>
    \o [ k \in 1..Len(headers) |->
           "#include <boost/metaparse/v" \o str(VERSION) \o "/impl/"
               \o headers[k] \o ".hpp>" ]
    \o << "" >>
    \o Flatten([ k \in 1..Len(lims) |-> StringBranch(k - 1, lims[k]) ])

generate_string(lims) ==
    StringHead(lims)
    \o << "#else",
          "#  error BOOST_METAPARSE_LIMIT_STRING_SIZE is greater than "
              \o str(max_value(lims))
              \o ". To increase the limit run tools/string_headers.py of"
              \o " Boost.Metaparse against your Boost headers.",
          "#endif",
          "" >>
    \o [ k \in 1..Len(headers) |->
           "#include <boost/metaparse/v" \o str(VERSION) \o "/impl/undef_"
               \o headers[k] \o ".hpp>" ]

----------------------------------------------------------------------------
(* The output directory *)

Exists(d, fname) == fname \in DOMAIN d

\* os.remove inside remove_file: OSError (no such file) is swallowed
remove_file(d, fname) == [ n \in (DOMAIN d) \ {fname} |-> d[n] ]

\* open(fname, 'wb'), the writes, and the close of the with statement
write_file(d, fname, lines) ==
    [ n \in (DOMAIN d) \cup {fname} |-> IF n = fname THEN lines ELSE d[n] ]

\* string_header_match of 'string[0-9].hpp': one digit only
string_header_match_one_digit(header) ==
    /\ Len(header) >= 11
    /\ SubSeq(header, 1, 6) = "string"
    /\ IsDigit(SubSeq(header, 7, 7))
    /\ SubSeq(header, 9, 11) = "hpp"

\* re.compile('string[0-9]+.hpp').match(header): anchored at the start only,
\* the dot is any character
string_header_match(header) ==
    /\ Len(header) >= 11
    /\ SubSeq(header, 1, 6) = "string"
    /\ \E n \in 1..(Len(header) - 10) :
          /\ \A k \in 7..(6 + n) : IsDigit(SubSeq(header, k, k))
          /\ SubSeq(header, 8 + n, 10 + n) = "hpp"

\* the remove_file calls of the first loop of remove_old_headers, in order
FixedHeaders ==
    LET prefixes == << "", "undef_" >>
    IN  Flatten([ k \in 1..Len(prefixes) |->
            << prefixes[k] \o "enum_params.hpp",
               prefixes[k] \o "enum_constant.hpp",
               prefixes[k] \o "string.hpp" >> ])

\* the calls of the first loop of generate_headers, in order
FamilyCalls ==
    LET undefines == << TRUE, FALSE >>
    IN  Flatten([ k \in 1..Len(undefines) |->
            << [ mode |-> "enum", name |-> "ENUM_PARAMS",
                 internal_name |-> "EP", undefine |-> undefines[k] ],
               [ mode |-> "repetition", name |-> "ENUM_CONSTANT",
                 internal_name |-> "EC", undefine |-> undefines[k] ] >> ])

Removed(fname, existed) == [ op |-> "remove", name |-> fname, existed |-> existed ]
Written(fname) == [ op |-> "write", name |-> fname, existed |-> FALSE ]

\* files a previous run or anything else may have left in the directory
StaleLines == << "// stale" >>
StaleNames ==
    { "string9999.hpp", "string2.hpp", "string.hpp", "undef_string9999.hpp" }
InitialDirs ==
    { [ n \in names |-> StaleLines ] : names \in SUBSET StaleNames }

----------------------------------------------------------------------------
(* The program: main, generate and what generate calls *)

DriverArguments ==
    ((1..MaxLengthLimit) \X (1..MaxStep)) \cup { << WideLengthLimit, WideStep >> }

Init ==
    /\ pc = "main"
    /\ \E args \in DriverArguments :
          /\ max_length_limit = args[1]
          /\ length_limit_step = args[2]
    /\ limits = << >>
    /\ length_limit = 0
    /\ indexing = << >>
    /\ dir \in InitialDirs
    /\ i = 0
    /\ listing = {}
    /\ run = 1
    /\ first = << >>
    /\ log = << >>

\* main: the arguments are positive integers; generate is called with the
\* list length_limits returns
Main ==
    /\ pc = "main"
    /\ limits' = length_limits(max_length_limit, length_limit_step)
    /\ pc' = "remove_old_headers"
    /\ i' = 0
    /\ log' = << >>
    /\ UNCHANGED << max_length_limit, length_limit_step, length_limit,
                    indexing, dir, listing, run, first >>

\* remove_old_headers, one remove_file of its first loop
RemoveFixed ==
    /\ pc = "remove_old_headers"
    /\ i < Len(FixedHeaders)
    /\ LET fname == FixedHeaders[i + 1]
       IN  /\ dir' = remove_file(dir, fname)
           /\ log' = Append(log, Removed(fname, Exists(dir, fname)))
    /\ i' = i + 1
    /\ UNCHANGED << pc, max_length_limit, length_limit_step, limits,
                    length_limit, indexing, listing, run, first >>

\* remove_old_headers: os.listdir(out_dir)
ListDir ==
    /\ pc = "remove_old_headers"
    /\ i = Len(FixedHeaders)
    /\ listing' = DOMAIN dir
    /\ pc' = "listed"
    /\ UNCHANGED << max_length_limit, length_limit_step, limits, length_limit,
                    indexing, dir, i, run, first, log >>

\* remove_old_headers, one turn of its second loop; os.listdir gives the
\* names in arbitrary order
RemoveListed ==
    /\ pc = "listed"
    /\ \E header \in listing :
          /\ listing' = listing \ {header}
          /\ IF string_header_match(header)
             THEN /\ dir' = remove_file(dir, header)
                  /\ log' = Append(log, Removed(header, Exists(dir, header)))
             ELSE UNCHANGED << dir, log >>
    /\ UNCHANGED << pc, max_length_limit, length_limit_step, limits,
                    length_limit, indexing, i, run, first >>

\* generate: remove_old_headers has returned
RemoveOldHeadersReturns ==
    /\ pc = "listed"
    /\ listing = {}
    /\ pc' = "generate_string"
    /\ UNCHANGED << max_length_limit, length_limit_step, limits, length_limit,
                    indexing, dir, i, listing, run, first, log >>

\* generate_string(out_dir, limits) of a non-empty list
GenerateString ==
    /\ pc = "generate_string"
    /\ Len(limits) > 0
    /\ dir' = write_file(dir, filename("string", FALSE), generate_string(limits))
    /\ log' = Append(log, Written(filename("string", FALSE)))
    /\ pc' = "generate_headers"
    /\ i' = 0
    /\ UNCHANGED << max_length_limit, length_limit_step, limits, length_limit,
                    indexing, listing, run, first >>

\* generate_string(out_dir, limits) of the empty list: max_value raises
\* ValueError, the with statement closes the file and the program ends
GenerateStringRaises ==
    /\ pc = "generate_string"
    /\ Len(limits) = 0
    /\ dir' = write_file(dir, filename("string", FALSE), StringHead(limits))
    /\ log' = Append(log, Written(filename("string", FALSE)))
    /\ pc' = "raised"
    /\ UNCHANGED << max_length_limit, length_limit_step, limits, length_limit,
                    indexing, i, listing, run, first >>

\* the lines of the file of one call of the first loop of generate_headers
FamilyFile(call, max_limit) ==
    IF call.mode = "enum"
    THEN generate_enum(call.name, call.internal_name, max_limit, call.undefine)
    ELSE generate_repetition(call.name, call.internal_name, max_limit,
                             call.undefine)

\* generate_headers, one call of its first loop
GenerateFamily ==
    /\ pc = "generate_headers"
    /\ i < Len(FamilyCalls)
    /\ LET call  == FamilyCalls[i + 1]
           fname == filename(call.name, call.undefine)
       IN  /\ dir' = write_file(dir, fname, FamilyFile(call, max_value(limits)))
           /\ log' = Append(log, Written(fname))
    /\ i' = IF i + 1 = Len(FamilyCalls) THEN 0 ELSE i + 1
    /\ pc' = IF i + 1 = Len(FamilyCalls) THEN "length_limits" ELSE pc
    /\ UNCHANGED << max_length_limit, length_limit_step, limits, length_limit,
                    indexing, listing, run, first >>

\* generate_headers, one turn of its second loop
GenerateWithLengthLimit ==
    /\ pc = "length_limits"
    /\ i < Len(limits)
    /\ LET fname == filename("string" \o limits[i + 1], FALSE)
       IN  /\ dir' = write_file(dir, fname,
                                generate_with_length_limit(limits[i + 1]))
           /\ log' = Append(log, Written(fname))
    /\ length_limit' = int(limits[i + 1])
    /\ indexing' = IndexingResult(int(limits[i + 1]))
    /\ i' = i + 1
    /\ pc' = IF i + 1 = Len(limits) THEN "done" ELSE pc
    /\ UNCHANGED << max_length_limit, length_limit_step, limits, listing,
                    run, first >>

\* the program is run again with the same arguments on the same directory
Again ==
    /\ pc = "done"
    /\ run < MaxRuns
    /\ run' = run + 1
    /\ first' = IF run = 1 THEN dir ELSE first
    /\ pc' = "main"
    /\ UNCHANGED << max_length_limit, length_limit_step, limits, length_limit,
                    indexing, dir, i, listing, log >>

Next ==
    \/ Main
    \/ RemoveFixed
    \/ ListDir
    \/ RemoveListed
    \/ RemoveOldHeadersReturns
    \/ GenerateString
    \/ GenerateStringRaises
    \/ GenerateFamily
    \/ GenerateWithLengthLimit
    \/ Again

Spec == Init /\ [][Next]_vars

----------------------------------------------------------------------------
(* length_limits and generate_string_indexing called alone *)

FnLengthLimits ==
    { a * Pow(16, 3) + r : a \in 0..FnMaxBlocks, r \in 0..FnMaxRest } \ {0}

FnArguments ==
    ((1..FnMaxLengthLimit) \X (1..FnMaxStep))
        \cup { << DefaultMaxLengthLimit, DefaultLengthLimitStep >> }

InitFn ==
    /\ \/ /\ pc = "call length_limits"
          /\ \E args \in FnArguments :
                /\ max_length_limit = args[1]
                /\ length_limit_step = args[2]
          /\ length_limit = 0
       \/ /\ pc = "call generate_string_indexing"
          /\ max_length_limit = DefaultMaxLengthLimit
          /\ length_limit_step = DefaultLengthLimitStep
          /\ length_limit \in FnLengthLimits
    /\ limits = << >>
    /\ indexing = << >>
    /\ dir = << >>
    /\ i = 0
    /\ listing = {}
    /\ run = 1
    /\ first = << >>
    /\ log = << >>

CallLengthLimits ==
    /\ pc = "call length_limits"
    /\ limits' = length_limits(max_length_limit, length_limit_step)
    /\ pc' = "length_limits returned"
    /\ UNCHANGED << max_length_limit, length_limit_step, length_limit,
                    indexing, dir, i, listing, run, first, log >>

CallGenerateStringIndexing ==
    /\ pc = "call generate_string_indexing"
    /\ indexing' = IndexingResult(length_limit)
    /\ pc' = "generate_string_indexing returned"
    /\ UNCHANGED << max_length_limit, length_limit_step, limits, length_limit,
                    dir, i, listing, run, first, log >>

NextFn == CallLengthLimits \/ CallGenerateStringIndexing

SpecFn == InitFn /\ [][NextFn]_vars

----------------------------------------------------------------------------
(* Reading the generated text back *)

Range(xs) == { xs[k] : k \in 1..Len(xs) }

StartsWith(s, prefix) ==
    Len(s) >= Len(prefix) /\ SubSeq(s, 1, Len(prefix)) = prefix

Occurs(s, pat, k) == SubSeq(s, k, k + Len(pat) - 1) = pat

Contains(s, pat) == \E k \in 1..(Len(s) - Len(pat) + 1) : Occurs(s, pat, k)

\* the place of the first occurrence of pat in s
Find(s, pat) ==
    CHOOSE k \in 1..(Len(s) - Len(pat) + 1) :
        Occurs(s, pat, k) /\ \A j \in 1..(k - 1) : ~Occurs(s, pat, j)

\* the text of s after the first occurrence of pat
After(s, pat) == SubSeq(s, Find(s, pat) + Len(pat), Len(s))

\* the text of s before the first occurrence of pat
Before(s, pat) == SubSeq(s, 1, Find(s, pat) - 1)

IsBatched(entry) == StartsWith(entry, "BOOST_METAPARSE_V1_STRING_AT")

\* the exponent e of a batched call STRING_AT<e>, 0 for an explicit lookup
EntryExp(entry) ==
    IF IsBatched(entry)
    THEN int(Before(After(entry, "BOOST_METAPARSE_V1_STRING_AT"), "("))
    ELSE 0

\* the index an entry is called with: hexadecimal in a batched call, decimal
\* in an explicit lookup
EntryIndex(entry) ==
    LET text == Before(After(entry, "((s), "), ")")
    IN  IF IsBatched(entry) THEN Parse(text, 16, 0) ELSE Parse(text, 10, 0)

\* the positions an entry addresses: the block [i*16^e, (i+1)*16^e)
Addresses(entry, p) ==
    /\ EntryIndex(entry) * Pow(16, EntryExp(entry)) <= p
    /\ p < (EntryIndex(entry) + 1) * Pow(16, EntryExp(entry))

\* the entries as pairs << exponent, index >>
ParsedIndexing ==
    [ k \in 1..Len(indexing) |->
        << EntryExp(indexing[k]), EntryIndex(indexing[k]) >> ]

\* n entries of exponent exp with the indices 0, 1, ..., n-1
Group(exp, n) == [ k \in 1..n |-> << exp, k - 1 >> ]

----------------------------------------------------------------------------
(* Claims on generate_string_indexing, under SpecFn *)

\* C1: for every length limit L >= 1 the entries of generate_string_indexing(L)
\* address every position of 0..L-1 exactly once, a batched call STRING_AT<e>
\* of index i addressing the block [i*16^e, (i+1)*16^e) and an explicit lookup
\* of index i the position i.
C1_EveryPositionOnce ==
    pc = "generate_string_indexing returned" =>
        \A p \in 0..(length_limit - 1) :
            Cardinality({ k \in 1..Len(indexing) : Addresses(indexing[k], p) }) = 1

\* C8: generate_string_indexing(L) emits a calls of weight 16^3, then b of
\* weight 16^2, then c of weight 16^1, then d explicit lookups, with
\* a = L div 4096, b = (L mod 4096) div 256, c = (L mod 256) div 16 and
\* d = L mod 16, each group with the indices 0, 1, ... in increasing order;
\* for L = 17 that is one call of weight 16^1 and one explicit lookup.
C8_GroupsInOrder ==
    pc = "generate_string_indexing returned" =>
        LET L == length_limit
            a == L \div 4096
            b == (L % 4096) \div 256
            c == (L % 256) \div 16
            d == L % 16
        IN  /\ ParsedIndexing
                 = Group(3, a) \o Group(2, b) \o Group(1, c) \o Group(0, d)
            /\ \A k \in 1..Len(indexing) :
                 IsBatched(indexing[k]) <=> k <= a + b + c
            /\ b < 16 /\ c < 16 /\ d < 16
            /\ 4096 * a + 256 * b + 16 * c + d = L
            /\ L = 17 => ParsedIndexing = << << 1, 0 >>, << 0, 0 >> >>

\* C8 witness: a length limit with two entries in each of the four groups
C8_Witness ==
    /\ pc = "generate_string_indexing returned"
    /\ length_limit = 2 * 4096 + 2 * 256 + 2 * 16 + 2
    /\ Len(indexing) = 8

----------------------------------------------------------------------------
(* Claims on length_limits, under SpecFn *)

LimitValues == [ k \in 1..Len(limits) |-> int(limits[k]) ]

\* C2: length_limits(M, S) returns, in ascending order, exactly the positive
\* multiples of S that do not exceed M + S - 1, each padded with zeros to
\* the number of digits of M; for M = 2048 and S = 128 these are the 16
\* values 128, 256, ..., 2048 of 4 digits each.
C2_MultiplesUpToBound ==
    pc = "length_limits returned" =>
        LET M == max_length_limit
            S == length_limit_step
        IN  /\ \A k \in 1..(Len(limits) - 1) : LimitValues[k] < LimitValues[k + 1]
            /\ Range(LimitValues)
                 = { k * S : k \in { j \in 1..(M + S - 1) : j * S <= M + S - 1 } }
            /\ \A k \in 1..Len(limits) :
                 limits[k] = zfill(str(LimitValues[k]), Len(str(M)))
            /\ (M = 2048 /\ S = 128) =>
                 /\ LimitValues = [ k \in 1..16 |-> 128 * k ]
                 /\ \A k \in 1..16 : Len(limits[k]) = 4

\* C3: the list length_limits(M, S) returns is not empty and its last value
\* is the smallest multiple of S that is at least M, so never below M.
C3_LastIsRoundedUp ==
    pc = "length_limits returned" =>
        LET M == max_length_limit
            S == length_limit_step
        IN  /\ Len(limits) > 0
            /\ LimitValues[Len(limits)] >= M
            /\ LimitValues[Len(limits)] % S = 0
            /\ LimitValues[Len(limits)] - S < M

----------------------------------------------------------------------------
(* Reading the generated files back *)

IsDefine(line) == StartsWith(line, "#define ")
IsUndef(line) == StartsWith(line, "#undef ")
IsIfdef(line) == StartsWith(line, "#ifdef ")
IsError(line) == StartsWith(line, "#  error ")
IsBranch(line) == StartsWith(line, "#if ") \/ StartsWith(line, "#elif ")

\* the macro a #define, #undef or #ifdef line names: the text after the
\* directive up to the first parenthesis or space
MacroOf(line) ==
    LET rest == After(line, " ")
        stop == { k \in 1..Len(rest) : SubSeq(rest, k, k) \in { "(", " " } }
    IN  IF stop = {} THEN rest
        ELSE SubSeq(rest, 1, (CHOOSE k \in stop : \A j \in stop : k <= j) - 1)

\* the body of the #define line of a macro with parameters
BodyOf(line) == After(line, ") ")

\* the macros the lines define, in the order of the file
DefinedMacros(lines) ==
    LET defines == SelectSeq(lines, IsDefine)
    IN  [ k \in 1..Len(defines) |-> MacroOf(defines[k]) ]

\* the #define line of a macro in the lines
DefineLineOf(lines, macro) ==
    CHOOSE l \in Range(lines) : IsDefine(l) /\ MacroOf(l) = macro

\* the file has been written by the current call of generate
WrittenNow(fname) == \E k \in 1..Len(log) : log[k] = Written(fname)

TimesWritten(fname) == Cardinality({ k \in 1..Len(log) : log[k] = Written(fname) })

\* the two macro families generate_headers is asked for
Families ==
    { [ name |-> "ENUM_PARAMS", stem |-> "EP", mode |-> "enum",
        file |-> "enum_params.hpp", undef_file |-> "undef_enum_params.hpp" ],
      [ name |-> "ENUM_CONSTANT", stem |-> "EC", mode |-> "repetition",
        file |-> "enum_constant.hpp", undef_file |-> "undef_enum_constant.hpp" ] }

Helper(f, k) == "BOOST_METAPARSE_V1_" \o f.stem \o str(k)

\* the largest limit, the maximum count of both families
MaxCount == max_value(limits)

----------------------------------------------------------------------------
(* Claims on the macro families, under Spec *)

\* C4: in define mode and in both emission modes the file holds exactly one
\* helper macro for each count 0..N, in ascending order, after the
\* dispatcher; the body of helper 0 is empty, and for every k in 2..N the
\* body of helper k begins with the call of helper k-1 on param followed by
\* one more term, which names no helper.
C4_HelperChain ==
    \A f \in Families :
        WrittenNow(f.file) =>
            LET lines == dir[f.file]
            IN  /\ DefinedMacros(lines)
                     = << "BOOST_METAPARSE_V1_" \o f.name >>
                         \o [ k \in 1..(MaxCount + 1) |-> Helper(f, k - 1) ]
                /\ BodyOf(DefineLineOf(lines, Helper(f, 0))) = ""
                /\ \A k \in 2..MaxCount :
                     LET body == BodyOf(DefineLineOf(lines, Helper(f, k)))
                         call == Helper(f, k - 1) \o "(param), "
                     IN  /\ StartsWith(body, call)
                         /\ Len(body) > Len(call)
                         /\ ~Contains(After(body, call),
                                      "BOOST_METAPARSE_V1_" \o f.stem)

\* C4 witness: both define files written with helpers up to a count of 4
C4_Witness ==
    /\ pc = "done"
    /\ MaxCount = 4
    /\ \A f \in Families : WrittenNow(f.file) /\ Len(DefinedMacros(dir[f.file])) = 6

\* C10 as claimed: for every k in 2..N the body of helper k is, in
\* enumeration mode, the call of helper k-1 on param followed by the term
\* CAT(param, k), and in repetition mode the call of helper k-1 on param
\* followed by param alone.
C10_TermNumberedByK ==
    \A f \in Families :
        WrittenNow(f.file) =>
            \A k \in 2..MaxCount :
                BodyOf(DefineLineOf(dir[f.file], Helper(f, k)))
                  = Helper(f, k - 1) \o "(param), "
                      \o (IF f.mode = "enum"
                          THEN "BOOST_METAPARSE_V1_CAT(param, " \o str(k) \o ")"
                          ELSE "param")

\* C10 amended: for every k in 2..N the body of helper k is, in enumeration
\* mode, the call of helper k-1 on param followed by the term
\* CAT(param, k-1), and in repetition mode the call of helper k-1 on param
\* followed by param alone, with no CAT in it.
C10_TermNumberedByKMinusOne ==
    \A f \in Families :
        WrittenNow(f.file) =>
            \A k \in 2..MaxCount :
                LET body == BodyOf(DefineLineOf(dir[f.file], Helper(f, k)))
                IN  /\ body = Helper(f, k - 1) \o "(param), "
                         \o (IF f.mode = "enum"
                             THEN "BOOST_METAPARSE_V1_CAT(param, "
                                      \o str(k - 1) \o ")"
                             ELSE "param")
                    /\ f.mode = "repetition" => ~Contains(body, "CAT")

\* C10 witness: both define files written with a helper 3
C10_Witness ==
    /\ pc = "done"
    /\ MaxCount >= 3
    /\ \A f \in Families :
         /\ WrittenNow(f.file)
         /\ \E l \in Range(dir[f.file]) : IsDefine(l) /\ MacroOf(l) = Helper(f, 3)

\* C5: the undefine file of a family holds an #undef of exactly the macros
\* the define file of the family holds a #define of, and no #define, #ifdef
\* or #error; the define file holds the check for a defined macro for the
\* dispatcher and for no helper.
C5_UndefMirrorsDefine ==
    \A f \in Families :
        (WrittenNow(f.file) /\ WrittenNow(f.undef_file)) =>
            LET def   == dir[f.file]
                undef == dir[f.undef_file]
                dispatcher == "BOOST_METAPARSE_V1_" \o f.name
            IN  /\ { MacroOf(l) : l \in { u \in Range(undef) : IsUndef(u) } }
                     = Range(DefinedMacros(def))
                /\ Range(DefinedMacros(def))
                     = { dispatcher } \cup { Helper(f, k) : k \in 0..MaxCount }
                /\ Len(SelectSeq(undef, IsUndef)) = Len(DefinedMacros(def))
                /\ \A l \in Range(undef) :
                     ~IsDefine(l) /\ ~IsIfdef(l) /\ ~Contains(l, "error")
                /\ \A l \in Range(def) : ~IsUndef(l)
                /\ [ k \in 1..Len(SelectSeq(def, IsIfdef)) |->
                       MacroOf(SelectSeq(def, IsIfdef)[k]) ] = << dispatcher >>
                /\ SelectSeq(def, IsError)
                     = << "#  error " \o dispatcher \o " already defined." >>

\* C5 witness: both variants of both families written, with helpers 0..4
C5_Witness ==
    /\ pc = "done"
    /\ MaxCount = 4
    /\ \A f \in Families :
         /\ WrittenNow(f.file) /\ WrittenNow(f.undef_file)
         /\ Len(SelectSeq(dir[f.undef_file], IsUndef)) = 6

----------------------------------------------------------------------------
(* Claims on generate, under Spec *)

\* a file name of the form string<digits>.hpp
IsStringN(fname) ==
    /\ Len(fname) >= 11
    /\ StartsWith(fname, "string")
    /\ SubSeq(fname, Len(fname) - 3, Len(fname)) = ".hpp"
    /\ \A k \in 7..(Len(fname) - 4) : IsDigit(SubSeq(fname, k, k))

LimitFiles == { "string" \o limits[k] \o ".hpp" : k \in 1..Len(limits) }

GeneratedFiles ==
    { "string.hpp" } \cup { f.file : f \in Families }
        \cup { f.undef_file : f \in Families } \cup LimitFiles

C7_Idempotent ==
    pc = "done" =>
        /\ run > 1 => dir = first
        /\ \A n \in GeneratedFiles : TimesWritten(n) = 1
        /\ \A k \in 1..Len(log) :
             log[k].op = "write" => log[k].name \in GeneratedFiles

\* C7 witness: the second call has completed, with two limits or more and
\* files the calls did not generate beside the generated ones
C7_Witness ==
    /\ pc = "done"
    /\ run = 2
    /\ Len(limits) >= 2
    /\ "undef_string9999.hpp" \in DOMAIN dir
    /\ dir = first

----------------------------------------------------------------------------
(* Claims on the conditional chain of string.hpp, under Spec *)

IsBranchAt(k) == IsBranch(dir["string.hpp"][k])

\* the branches of the chain, in the order of the file
Branches ==
    LET lines == dir["string.hpp"]
        at    == SelectSeq([ k \in 1..Len(lines) |-> k ], IsBranchAt)
    IN  [ k \in 1..Len(at) |->
            [ directive |-> Before(lines[at[k]], " "),
              bound     |-> int(After(lines[at[k]], "<= ")),
              include   |-> Before(After(lines[at[k] + 1], "/impl/"), ">"),
              alias     |-> After(lines[at[k] + 2], "#  define BOOST_METAPARSE_V1_STRING "),
              line      |-> at[k] ] ]

Min(S) == CHOOSE m \in S : \A x \in S : m <= x

\* the branch the preprocessor takes for a requested size: the first whose
\* condition holds, 0 standing for the #else branch
Selected(size) ==
    LET hold == { k \in 1..Len(Branches) : size <= Branches[k].bound }
    IN  IF hold = {} THEN 0 ELSE Min(hold)

\* C9: the chain has one branch for each limit, in ascending order, the
\* first an #if and the others #elif; for a requested size R it takes the
\* branch of the smallest limit that is at least R, which includes the file
\* string<limit>.hpp written by generate_headers and gives STRING the macro
\* STRING<limit> that file defines; the #else branch, an #error, is taken
\* exactly when R is greater than the largest limit.
C9_ChainSelectsSmallestLimit ==
    pc = "done" =>
        LET lines == dir["string.hpp"]
            last  == Branches[Len(Branches)].line
        IN  /\ Len(Branches) = Len(limits)
            /\ \A k \in 1..Len(Branches) :
                 /\ Branches[k].directive = IF k = 1 THEN "#if" ELSE "#elif"
                 /\ Branches[k].bound = LimitValues[k]
                 /\ Branches[k].line = Branches[1].line + 3 * (k - 1)
            /\ \A k \in 1..(Len(Branches) - 1) :
                 Branches[k].bound < Branches[k + 1].bound
            /\ lines[last + 3] = "#else"
            /\ IsError(lines[last + 4])
            /\ lines[last + 5] = "#endif"
            /\ \A size \in 0..(MaxCount + 1) :
                 LET sel == Selected(size)
                     geq == { v \in Range(LimitValues) : v >= size }
                 IN  /\ sel = 0 <=> size > MaxCount
                     /\ sel # 0 =>
                          /\ Branches[sel].bound = Min(geq)
                          /\ Branches[sel].include \in LimitFiles
                          /\ WrittenNow(Branches[sel].include)
                          /\ Branches[sel].alias
                               = "BOOST_METAPARSE_V1_STRING" \o str(Min(geq))
                          /\ \E l \in Range(dir[Branches[sel].include]) :
                               IsDefine(l) /\ MacroOf(l) = Branches[sel].alias

\* C9 witness: a chain of three branches whose limits are padded with zeros
C9_Witness ==
    /\ pc = "done"
    /\ Len(limits) = 3
    /\ limits[1] = "04"
    /\ Len(Branches) = 3
    /\ Selected(5) = 2

====
